---- MODULE Spec2Model ----
(***************************************************************************)
(* TalentSolarMonitor (pyTalentMonitor/__init__.py): a client that logs in *)
(* to the Talent monitoring API, issues four dependent GETs and flattens   *)
(* the answers into one report.  Every "await session.post/get" is a       *)
(* suspension point: an action runs the code from one suspension point to  *)
(* the next.  The server (status codes and bodies) is the environment.     *)
(***************************************************************************)
EXTENDS Integers, Sequences, FiniteSets, TLC

\* Longest "rows" list and longest "pv" list the server answers with.
MaxRows == 2
MaxPv == 3

---------------------------------------------------------------------------
\* Python values

\* None where a string is expected (username, password, token).
NONE == "None"
\* An absent result (get_data's None, an unbound local) and a present one.
None == <<>>
Some(v) == <<v>>
\* {} and a body that has none of the expected keys.
EmptyDict == [k \in {} |-> 0]
ErrorBody == [code |-> 500]

\* bool(s) of a str-or-None
Truthy(s) == s \notin {NONE, ""}
\* bool(data) of a dict-or-None
DataTruthy(d) == d # None /\ DOMAIN d[1] # {}
\* a or b
PyOr(a, b) == IF Truthy(a) THEN a ELSE b

\* Values of the constructor's arguments and of the environment variables.
ArgValues == {NONE, "", "u"}
EnvValues == {NONE, "", "u"}
\* Tokens the server hands out.
Tokens == {"t1", "t2"}
Statuses == {200, 401, 500}

---------------------------------------------------------------------------
\* Endpoints and the bodies the server answers with

Endpoint(path, arg) == [path |-> path, arg |-> arg]
LoginEndpoint == Endpoint("login", 0)
StationListEndpoint == Endpoint("system/station/list", 0)
StationDetailEndpoint(guid) == Endpoint("system/station/getPowerStationByGuid", guid)
InverterListEndpoint == Endpoint("tools/device/selectDeviceInverter", 0)
InverterInfoEndpoint(guid) == Endpoint("tools/device/selectDeviceInverterInfo", guid)

StationRow(i) == [status |-> 10 * i + 1, stationName |-> 10 * i + 2,
                  powerStationGuid |-> 10 * i + 3]
InverterRow(i) == [deviceGuid |-> 10 * i + 4]
PvEntry(i) == [voltage |-> 100 * i + 1, current |-> 100 * i + 2, power |-> 100 * i + 3]
PowerData(i) == [totalActivePower |-> 50 + 10 * i + 1, dayEnergy |-> 50 + 10 * i + 2,
                 monthEnergy |-> 50 + 10 * i + 3, yearEnergy |-> 50 + 10 * i + 4]

\* The positions of the entries of a list of up to max entries, in ascending
\* or in descending order.
Orders(max) ==
    UNION {{[i \in 1..n |-> i], [i \in 1..n |-> n + 1 - i]} : n \in 0..max}

BodiesFor(path) ==
    {EmptyDict, ErrorBody} \cup
    CASE path = "system/station/list" ->
           {[rows |-> [i \in 1..Len(o) |-> StationRow(o[i])]] : o \in Orders(MaxRows)}
      [] path = "system/station/getPowerStationByGuid" ->
           {[data |-> PowerData(i)] : i \in 1..2}
      [] path = "tools/device/selectDeviceInverter" ->
           {[rows |-> [i \in 1..Len(o) |-> InverterRow(o[i])]] : o \in Orders(MaxRows)}
      [] path = "tools/device/selectDeviceInverterInfo" ->
           {[data |-> [pv |-> [i \in 1..Len(o) |-> PvEntry(o[i])]]] : o \in Orders(MaxPv)}
      [] OTHER -> {}

LoginResponses ==
    {[status |-> 200, body |-> [token |-> t]] : t \in Tokens} \cup
    {[status |-> s, body |-> ErrorBody] : s \in {200, 401}}

GetResponses(path) ==
    {[status |-> 200, body |-> b] : b \in BodiesFor(path)} \cup
    {[status |-> s, body |-> ErrorBody] : s \in Statuses \ {200}}

---------------------------------------------------------------------------
VARIABLES
    username, password, return_json, token,  \* the object's fields
    op,        \* the method the caller invoked last
    pc,        \* "idle", or the request whose response is awaited
    ctx,       \* while a login is awaited: the place that awaits it
    stage,     \* get_data: 0 called by the caller, 1..4 by fetch_solar_data
    endpoint,  \* get_data's endpoint
    attempt,   \* get_data: 1 for the GET of line 70, 2 for that of line 74
    gdFirst,   \* index in log of the first request of the running get_data
    locals,    \* fetch_solar_data's local variables
    log,       \* the requests of the running invocation, with their responses
    gd,        \* the get_data calls the running invocation has completed
    logged,    \* the report lines written by line 144
    ret,       \* what the invocation returned
    raised,    \* the exception it raised, or "none"
    prev,      \* the invocation before this one
    token0,    \* the token when this invocation began
    session,   \* the ClientSession: "none", "open" or "closed"
    client,    \* whether the TalentSolarMonitor is constructed
    mainpc     \* main: "off" (not used), "start", "entered", "fetching", "done"

vars == <<username, password, return_json, token, op, pc, ctx, stage, endpoint,
          attempt, gdFirst, locals, log, gd, logged, ret, raised, prev, token0,
          session, client, mainpc>>

LocalNames == {"status", "stationName", "powerStationGuid", "totalActivePower",
               "dayEnergy", "monthEnergy", "yearEnergy", "deviceGuid",
               "pv1Voltage", "pv1Current", "pv1Power",
               "pv2Voltage", "pv2Current", "pv2Power"}
NoLocals == [n \in LocalNames |-> None]

Init ==
    /\ \E a \in ArgValues, e \in EnvValues : username = PyOr(a, e)
    /\ \E a \in ArgValues, e \in EnvValues : password = PyOr(a, e)
    /\ return_json \in BOOLEAN
    /\ token = NONE
    /\ op = "none" /\ pc = "idle" /\ ctx = "none"
    /\ stage = 0 /\ endpoint = LoginEndpoint /\ attempt = 0 /\ gdFirst = 0
    /\ locals = NoLocals
    /\ log = <<>> /\ gd = <<>> /\ logged = <<>>
    /\ ret = None /\ raised = "none"
    /\ prev = [op |-> "none"]
    /\ token0 = NONE
    /\ session = "open" /\ client = TRUE /\ mainpc = "off"

\* The process before main runs: no session and no client yet; the fields
\* hold what the constructor will compute from main's arguments.
MainInit ==
    /\ \E a \in ArgValues, e \in EnvValues : username = PyOr(a, e)
    /\ \E a \in ArgValues, e \in EnvValues : password = PyOr(a, e)
    /\ return_json \in BOOLEAN
    /\ token = NONE
    /\ op = "none" /\ pc = "idle" /\ ctx = "none"
    /\ stage = 0 /\ endpoint = LoginEndpoint /\ attempt = 0 /\ gdFirst = 0
    /\ locals = NoLocals
    /\ log = <<>> /\ gd = <<>> /\ logged = <<>>
    /\ ret = None /\ raised = "none"
    /\ prev = [op |-> "none"]
    /\ token0 = NONE
    /\ session = "none" /\ client = FALSE /\ mainpc = "start"

---------------------------------------------------------------------------
\* The code between the suspension points, as functions

\* get_credentials without the test of the password.
get_credentials_UsernameOnly(u, p) == Truthy(u)

\* get_credentials: TRUE when it returns, FALSE when it raises ValueError.
get_credentials(u, p) == ~(~Truthy(u) \/ ~Truthy(p))

\* No call site awaits its coroutine.
Awaited_Nowhere(site) == FALSE

\* Whether the coroutine created at a call site is awaited.  A coroutine that
\* is created and dropped never runs.
Awaited(site) == site = "fetch_solar_data:login"

\* The 401 test as a loop.
RetryOn_Again(status, n) == n <= 2 /\ status = 401

\* The 401 test repeated after the retry.
RetryOn_Thrice(status, n) == n <= 3 /\ status = 401

\* get_data, line 71: the 401 test is an "if" after the first GET only.
RetryOn(status, n) == n = 1 /\ status = 401

\* Only a 401 gives None.
GetDataReturn_Not401(status, body) == IF status # 401 THEN Some(body) ELSE None

\* get_data, lines 76-80.
GetDataReturn(status, body) == IF status = 200 THEN Some(body) ELSE None

\* Line 88 without the length test.
HasStationRows_NoLength(data) == DataTruthy(data) /\ "rows" \in DOMAIN data[1]

\* fetch_solar_data, line 88.
HasStationRows(data) ==
    DataTruthy(data) /\ "rows" \in DOMAIN data[1] /\ Len(data[1].rows) > 0

\* What fetch_solar_data does next: call get_data (kind "call"), raise, or
\* go on to build the report (kind "report"), or return nothing ("return").
Step(kind, loc, e, err) == [kind |-> kind, locals |-> loc, endpoint |-> e, err |-> err]
Call(loc, e) == Step("call", loc, e, "none")
Raise(err) == Step("raise", NoLocals, LoginEndpoint, err)

\* lines 88-97
AfterStationList(data, loc) ==
    IF HasStationRows(data)
      THEN IF Len(data[1].rows) = 0 THEN Raise("IndexError") ELSE
           LET first_station == data[1].rows[1] IN
           Call([loc EXCEPT !.status = Some(first_station.status),
                            !.stationName = Some(first_station.stationName),
                            !.powerStationGuid = Some(first_station.powerStationGuid)],
                StationDetailEndpoint(first_station.powerStationGuid))
      ELSE Step("return", loc, LoginEndpoint, "none")

\* Lines 100-107 giving up when the station detail is absent.
AfterStationDetail_Aborts(data, loc) ==
    IF DataTruthy(data)
      THEN IF "data" \notin DOMAIN data[1] THEN Raise("KeyError")
           ELSE LET power_data == data[1].data IN
                IF ~({"totalActivePower", "dayEnergy", "monthEnergy", "yearEnergy"}
                       \subseteq DOMAIN power_data)
                  THEN Raise("KeyError")
                  ELSE Call([loc EXCEPT !.totalActivePower = Some(power_data.totalActivePower),
                                        !.dayEnergy = Some(power_data.dayEnergy),
                                        !.monthEnergy = Some(power_data.monthEnergy),
                                        !.yearEnergy = Some(power_data.yearEnergy)],
                            InverterListEndpoint)
      ELSE Step("return", loc, LoginEndpoint, "none")

\* lines 100-107
AfterStationDetail(data, loc) ==
    IF DataTruthy(data)
      THEN IF "data" \notin DOMAIN data[1] THEN Raise("KeyError")
           ELSE LET power_data == data[1].data IN
                IF ~({"totalActivePower", "dayEnergy", "monthEnergy", "yearEnergy"}
                       \subseteq DOMAIN power_data)
                  THEN Raise("KeyError")
                  ELSE Call([loc EXCEPT !.totalActivePower = Some(power_data.totalActivePower),
                                        !.dayEnergy = Some(power_data.dayEnergy),
                                        !.monthEnergy = Some(power_data.monthEnergy),
                                        !.yearEnergy = Some(power_data.yearEnergy)],
                            InverterListEndpoint)
      ELSE Call(loc, InverterListEndpoint)

\* Lines 108-113 taking the last row.
AfterInverterList_LastRow(data, loc) ==
    IF DataTruthy(data)
      THEN IF "rows" \notin DOMAIN data[1] THEN Raise("KeyError")
           ELSE IF Len(data[1].rows) = 0 THEN Raise("IndexError")
           ELSE LET deviceGuid == data[1].rows[Len(data[1].rows)].deviceGuid IN
                Call([loc EXCEPT !.deviceGuid = Some(deviceGuid)],
                     InverterInfoEndpoint(deviceGuid))
      ELSE IF loc.deviceGuid = None THEN Raise("UnboundLocalError")
           ELSE Call(loc, InverterInfoEndpoint(loc.deviceGuid[1]))

\* lines 108-113
AfterInverterList(data, loc) ==
    IF DataTruthy(data)
      THEN IF "rows" \notin DOMAIN data[1] THEN Raise("KeyError")
           ELSE IF Len(data[1].rows) = 0 THEN Raise("IndexError")
           ELSE LET deviceGuid == data[1].rows[1].deviceGuid IN
                Call([loc EXCEPT !.deviceGuid = Some(deviceGuid)],
                     InverterInfoEndpoint(deviceGuid))
      ELSE IF loc.deviceGuid = None THEN Raise("UnboundLocalError")
           ELSE Call(loc, InverterInfoEndpoint(loc.deviceGuid[1]))

\* lines 116-123
AfterInverterInfo(data, loc) ==
    IF DataTruthy(data)
      THEN IF "data" \notin DOMAIN data[1] THEN Raise("KeyError")
           ELSE IF "pv" \notin DOMAIN data[1].data THEN Raise("KeyError")
           ELSE LET pv == data[1].data.pv IN
                IF Len(pv) < 1 THEN Raise("IndexError")
                ELSE IF Len(pv) < 2 THEN Raise("IndexError")
                ELSE Step("report",
                          [loc EXCEPT !.pv1Voltage = Some(pv[1].voltage),
                                      !.pv1Current = Some(pv[1].current),
                                      !.pv1Power = Some(pv[1].power),
                                      !.pv2Voltage = Some(pv[2].voltage),
                                      !.pv2Current = Some(pv[2].current),
                                      !.pv2Power = Some(pv[2].power)],
                          LoginEndpoint, "none")
      ELSE Step("report", loc, LoginEndpoint, "none")

\* The report with Panel1Power(W) read from pv2Power.
ReportFields_Panel1FromPv2 ==
    << <<"Status", "status">>, <<"StationName", "stationName">>,
       <<"TotalActivePower(W)", "totalActivePower">>,
       <<"DailyEnergy(Wh)", "dayEnergy">>, <<"MonthlyEnergy(Wh)", "monthEnergy">>,
       <<"YearlyEnergy(Wh)", "yearEnergy">>,
       <<"Panel1Voltage(V)", "pv1Voltage">>, <<"Panel1Current(A)", "pv1Current">>,
       <<"Panel1Power(W)", "pv2Power">>,
       <<"Panel2Voltage(V)", "pv2Voltage">>, <<"Panel2Current(A)", "pv2Current">>,
       <<"Panel2Power(W)", "pv2Power">> >>

\* The report without its yearly energy.
ReportFields_NoYearlyEnergy ==
    << <<"Status", "status">>, <<"StationName", "stationName">>,
       <<"TotalActivePower(W)", "totalActivePower">>,
       <<"DailyEnergy(Wh)", "dayEnergy">>, <<"MonthlyEnergy(Wh)", "monthEnergy">>,
       <<"Panel1Voltage(V)", "pv1Voltage">>, <<"Panel1Current(A)", "pv1Current">>,
       <<"Panel1Power(W)", "pv1Power">>,
       <<"Panel2Voltage(V)", "pv2Voltage">>, <<"Panel2Current(A)", "pv2Current">>,
       <<"Panel2Power(W)", "pv2Power">> >>

\* lines 125-138: the keys of result, in construction order, each with the
\* local variable it is read from.
ReportFields ==
    << <<"Status", "status">>, <<"StationName", "stationName">>,
       <<"TotalActivePower(W)", "totalActivePower">>,
       <<"DailyEnergy(Wh)", "dayEnergy">>, <<"MonthlyEnergy(Wh)", "monthEnergy">>,
       <<"YearlyEnergy(Wh)", "yearEnergy">>,
       <<"Panel1Voltage(V)", "pv1Voltage">>, <<"Panel1Current(A)", "pv1Current">>,
       <<"Panel1Power(W)", "pv1Power">>,
       <<"Panel2Voltage(V)", "pv2Voltage">>, <<"Panel2Current(A)", "pv2Current">>,
       <<"Panel2Power(W)", "pv2Power">> >>
ReportKeys == {ReportFields[i][1] : i \in 1..Len(ReportFields)}
LocalOf(key) == (CHOOSE i \in 1..Len(ReportFields) : ReportFields[i][1] = key)
\* Reading an unbound local raises UnboundLocalError.
ReportUnbound(loc) == \E i \in 1..Len(ReportFields) : loc[ReportFields[i][2]] = None
Result(loc) == [k \in ReportKeys |-> loc[ReportFields[LocalOf(k)][2]][1]]
\* json.dumps(result, indent=4) and result.items(): the key/value pairs in
\* construction order.
Items(result) == [i \in 1..Len(ReportFields) |-> <<ReportFields[i][1], result[ReportFields[i][1]]>>]
Dumps(result) == [json |-> Items(result)]

\* fetch_solar_data after the get_data of stage st returned data.
FetchStep(st, data, loc) ==
    CASE st = 1 -> AfterStationList(data, loc)
      [] st = 2 -> AfterStationDetail(data, loc)
      [] st = 3 -> AfterInverterList(data, loc)
      [] OTHER ->
           LET s == AfterInverterInfo(data, loc) IN
           IF s.kind = "report" /\ ReportUnbound(s.locals)
             THEN Raise("UnboundLocalError") ELSE s

\* login that logs the failure and returns.
LoginOutcome_NoRaise(body, tok) ==
    IF "token" \in DOMAIN body
      THEN [token |-> body.token, err |-> "none"]
      ELSE [token |-> tok, err |-> "none"]

\* login that forgets the token it held when the login fails.
LoginOutcome_ClearsToken(body, tok) ==
    IF "token" \in DOMAIN body
      THEN [token |-> body.token, err |-> "none"]
      ELSE [token |-> NONE, err |-> "AuthenticationError"]

\* login, lines 53-58: the token self.token holds afterwards (tok before),
\* and the exception raised.
LoginOutcome(body, tok) ==
    IF "token" \in DOMAIN body
      THEN [token |-> body.token, err |-> "none"]
      ELSE [token |-> tok, err |-> "AuthenticationError"]

\* The report returned in both modes.
Output_AlwaysReturns(rj, result) ==
    IF rj THEN [ret |-> Some(Dumps(result)), lines |-> <<>>]
          ELSE [ret |-> Some(Dumps(result)), lines |-> Items(result)]

\* fetch_solar_data, lines 140-144: what is returned and what is logged.
Output(rj, result) ==
    IF rj THEN [ret |-> Some(Dumps(result)), lines |-> <<>>]
          ELSE [ret |-> None, lines |-> Items(result)]

---------------------------------------------------------------------------
\* Requests

Request(method, e, auth) ==
    [method |-> method, endpoint |-> e, auth |-> auth, status |-> 0, body |-> EmptyDict]
\* The response to the request in flight arrives.
Answered(lg, r) == [lg EXCEPT ![Len(lg)] = [@ EXCEPT !.status = r.status, !.body = r.body]]

\* session.post(f"{BASE_URL}/login", ...), line 51, awaited at site c.
SendPost(lg, c) ==
    /\ pc' = "login" /\ ctx' = c
    /\ log' = Append(lg, Request("POST", LoginEndpoint, NONE))

\* session.get(f"{BASE_URL}/{endpoint}", headers=headers), lines 70 and 74:
\* the header is f"Bearer {self.token}".
SendGet(lg, e, tok, n) ==
    /\ pc' = "get" /\ ctx' = "none" /\ attempt' = n
    /\ log' = Append(lg, Request("GET", e, tok))

\* get_data, lines 67-70.
EnterGetData(lg, tok, st, e) ==
    /\ stage' = st /\ endpoint' = e /\ gdFirst' = Len(lg) + 1
    /\ IF ~Truthy(tok) /\ Awaited("get_data:login")
         THEN SendPost(lg, "get_data") /\ attempt' = 1
         ELSE SendGet(lg, e, tok, 1)

\* The invocation ends: it returns r or raises e.
Finish(r, e, lg, g, lines) ==
    /\ pc' = "idle" /\ ctx' = "none"
    /\ stage' = 0 /\ endpoint' = LoginEndpoint /\ attempt' = 0 /\ gdFirst' = 0
    /\ locals' = NoLocals
    /\ log' = lg /\ gd' = g /\ logged' = lines
    /\ ret' = r /\ raised' = e

\* The caller invokes method o of the idle object.
Begin(o) ==
    /\ pc = "idle" /\ mainpc = "off"
    /\ op' = o
    /\ prev' = [op |-> op]
    /\ token0' = token
    /\ UNCHANGED <<username, password, return_json, token, session, client, mainpc>>

Fresh ==
    /\ locals' = NoLocals /\ gd' = <<>> /\ logged' = <<>>
    /\ ret' = None /\ raised' = "none"

NoGetData == stage' = 0 /\ endpoint' = LoginEndpoint /\ attempt' = 0 /\ gdFirst' = 0

---------------------------------------------------------------------------
\* The caller's invocations, up to the first request

\* await login(), lines 50-51
login ==
    /\ Begin("login")
    /\ Fresh /\ NoGetData
    /\ SendPost(<<>>, "login")

\* await refresh_token(), lines 62-63
refresh_token ==
    /\ Begin("refresh_token")
    /\ IF Awaited("refresh_token:login")
         THEN Fresh /\ NoGetData /\ SendPost(<<>>, "refresh_token")
         ELSE Finish(None, "none", <<>>, <<>>, <<>>)

\* await get_data(endpoint), lines 67-70
get_data ==
    /\ Begin("get_data")
    /\ Fresh
    /\ \E e \in {StationListEndpoint, InverterListEndpoint} :
          EnterGetData(<<>>, token, 0, e)

\* fetch_solar_data, lines 84-87 up to the first request
FetchStart ==
    IF ~get_credentials(username, password)
      THEN Finish(None, "ValueError", <<>>, <<>>, <<>>)
      ELSE IF Awaited("fetch_solar_data:login")
             THEN Fresh /\ NoGetData /\ SendPost(<<>>, "fetch_solar_data")
             ELSE Fresh /\ EnterGetData(<<>>, token, 1, StationListEndpoint)

\* await fetch_solar_data()
fetch_solar_data ==
    /\ Begin("fetch_solar_data")
    /\ FetchStart

\* The session is released only when the block is left normally.
SessionAtExit_LeakedOnError(err) == IF err = "none" THEN "closed" ELSE "open"

\* main, line 149: "async with" runs the session's __aexit__ when the block
\* is left, by a return or by an exception err.
SessionAtExit(err) == "closed"

\* main, lines 149-153, when the awaited fetch_solar_data has ended.
MainExit ==
    IF mainpc = "fetching" /\ pc' = "idle"
      THEN session' = SessionAtExit(raised') /\ mainpc' = "done"
      ELSE UNCHANGED <<session, mainpc>>

\* main, line 149: the session is acquired.
main_enter ==
    /\ mainpc = "start"
    /\ session' = "open" /\ mainpc' = "entered"
    /\ UNCHANGED <<username, password, return_json, token, op, pc, ctx, stage,
                   endpoint, attempt, gdFirst, locals, log, gd, logged, ret, raised,
                   prev, token0, client>>

\* main, lines 150-151: the client is constructed and fetch_solar_data runs
\* up to its first request.
main_fetch ==
    /\ mainpc = "entered"
    /\ client' = TRUE
    /\ op' = "fetch_solar_data"
    /\ token0' = token
    /\ FetchStart
    /\ IF pc' = "idle"
         THEN session' = SessionAtExit(raised') /\ mainpc' = "done"
         ELSE session' = session /\ mainpc' = "fetching"
    /\ UNCHANGED <<username, password, return_json, token, prev>>

---------------------------------------------------------------------------
\* The responses

\* login, lines 52-58, and the code that awaited it.
login_response ==
    /\ pc = "login"
    /\ \E r \in LoginResponses :
         LET lg == Answered(log, r)
             o == LoginOutcome(r.body, token)
         IN
         /\ token' = o.token
         /\ IF o.err = "none"
              THEN CASE ctx = "fetch_solar_data" ->
                          /\ EnterGetData(lg, o.token, 1, StationListEndpoint)
                          /\ UNCHANGED <<locals, gd, logged, ret, raised>>
                     [] ctx = "get_data" ->
                          /\ SendGet(lg, endpoint, o.token, 1)
                          /\ UNCHANGED <<stage, endpoint, gdFirst, locals, gd, logged, ret, raised>>
                     [] ctx = "refresh_token" /\ op # "refresh_token" ->
                          /\ SendGet(lg, endpoint, o.token, attempt + 1)
                          /\ UNCHANGED <<stage, endpoint, gdFirst, locals, gd, logged, ret, raised>>
                     [] OTHER -> Finish(None, "none", lg, gd, <<>>)
              ELSE Finish(None, o.err, lg, gd, <<>>)
    /\ MainExit
    /\ UNCHANGED <<username, password, return_json, op, prev, token0, client>>

\* get_data, lines 71-80, and for a get_data of fetch_solar_data the code of
\* fetch_solar_data up to the next request or to its end.
get_data_response ==
    /\ pc = "get"
    /\ \E r \in GetResponses(endpoint.path) :
         LET lg == Answered(log, r) IN
         IF RetryOn(r.status, attempt)
           THEN /\ IF Awaited("get_data:refresh_token") /\ Awaited("refresh_token:login")
                     THEN SendPost(lg, "refresh_token") /\ UNCHANGED attempt
                     ELSE SendGet(lg, endpoint, token, attempt + 1)
                /\ UNCHANGED <<stage, endpoint, gdFirst, locals, gd, logged, ret, raised>>
           ELSE LET data == GetDataReturn(r.status, r.body)
                    g == Append(gd, [endpoint |-> endpoint, first |-> gdFirst,
                                     last |-> Len(lg), data |-> data])
                IN  IF stage = 0 THEN Finish(data, "none", lg, g, <<>>)
                    ELSE LET s == FetchStep(stage, data, locals) IN
                         CASE s.kind = "call" ->
                                /\ EnterGetData(lg, token, stage + 1, s.endpoint)
                                /\ locals' = s.locals /\ gd' = g
                                /\ UNCHANGED <<logged, ret, raised>>
                           [] s.kind = "raise" -> Finish(None, s.err, lg, g, <<>>)
                           [] s.kind = "report" ->
                                LET out == Output(return_json, Result(s.locals)) IN
                                Finish(out.ret, "none", lg, g, out.lines)
                           [] OTHER -> Finish(None, "none", lg, g, <<>>)
    /\ MainExit
    /\ UNCHANGED <<username, password, return_json, token, op, prev, token0, client>>

Next ==
    \/ login
    \/ refresh_token
    \/ get_data
    \/ fetch_solar_data
    \/ login_response
    \/ get_data_response

Spec == Init /\ [][Next]_vars

\* The program run as a script: main.
MainNext ==
    \/ main_enter
    \/ main_fetch
    \/ login_response
    \/ get_data_response

MainSpec == MainInit /\ [][MainNext]_vars

\* A caller that only invokes fetch_solar_data, and a server that answers
\* every request.
FetchNext ==
    \/ fetch_solar_data
    \/ login_response
    \/ get_data_response

LiveSpec ==
    Init /\ [][FetchNext]_vars /\ WF_vars(login_response) /\ WF_vars(get_data_response)

---------------------------------------------------------------------------
\* Properties

\* C1: a get_data whose first GET is answered 401 issues, before it returns,
\* exactly GET, POST /login, GET.
C1_ReauthenticatesOnceAndRetries ==
    \A i \in 1..Len(gd) :
       log[gd[i].first].status = 401 =>
          /\ gd[i].last = gd[i].first + 2
          /\ log[gd[i].first].method = "GET"
          /\ log[gd[i].first + 1].method = "POST"
          /\ log[gd[i].first + 1].endpoint = LoginEndpoint
          /\ log[gd[i].last].method = "GET"
          /\ log[gd[i].last].endpoint = log[gd[i].first].endpoint

\* C2: the GET retried after a 401 carries the token of a re-login answered
\* between the rejected GET and the retry.
C2_RetryCarriesRefreshedToken ==
    \A i \in 1..Len(gd) :
       (log[gd[i].first].method = "GET" /\ log[gd[i].first].status = 401) =>
          \E j \in (gd[i].first + 1)..(gd[i].last - 1) :
             /\ log[j].method = "POST"
             /\ "token" \in DOMAIN log[j].body
             /\ log[gd[i].last].auth = log[j].body.token

\* C3 as claimed: an invocation in which a get_data saw 401 on its GET and on
\* the retry ends with AuthenticationError.
C3_Second401RaisesAuthenticationError ==
    (pc = "idle" /\ \E i \in 1..Len(gd) :
                       /\ gd[i].last > gd[i].first
                       /\ log[gd[i].first].status = 401
                       /\ log[gd[i].last].status = 401)
       => raised = "AuthenticationError"

\* C3, amended: a get_data that saw 401 on its GET and on the retry returns
\* an absent result, nothing raises AuthenticationError, and the two GETs are
\* not followed by a third GET of that endpoint.
C3_Second401IsAbsentResult ==
    /\ \A i \in 1..Len(gd) :
          (gd[i].last > gd[i].first /\ log[gd[i].first].status = 401
             /\ log[gd[i].last].status = 401) =>
             /\ gd[i].data = None
             /\ raised # "AuthenticationError"
             /\ (op = "get_data" /\ pc = "idle" => raised = "none" /\ ret = None)
    /\ \A j \in 1..(Len(log) - 2) :
          (/\ log[j].method = "GET" /\ log[j].status = 401
           /\ log[j + 1].method = "GET" /\ log[j + 1].status = 401
           /\ log[j + 1].endpoint = log[j].endpoint)
             => ~(log[j + 2].method = "GET" /\ log[j + 2].endpoint = log[j].endpoint)

C3_Witness ==
    /\ op = "get_data" /\ pc = "idle" /\ Len(gd) = 1 /\ Len(log) = 2
    /\ log[1].status = 401 /\ log[2].status = 401
    /\ ret = None /\ raised = "none"

\* C4: fetch_solar_data on an object whose username or password is empty or
\* None raises the credentials error with no request sent and the token as
\* it was.
C4_NoCredentialsNoRequest ==
    (op = "fetch_solar_data" /\ (~Truthy(username) \/ ~Truthy(password))) =>
       /\ pc = "idle"
       /\ raised = "ValueError"
       /\ ret = None
       /\ log = <<>>
       /\ token = token0

C4_Witness ==
    /\ op = "fetch_solar_data" /\ pc = "idle"
    /\ username = "u" /\ password = ""
    /\ raised = "ValueError" /\ log = <<>> /\ token = NONE

\* C5 as claimed: a fetch_solar_data that follows a fetch_solar_data, begins
\* with a token held and sees no 401, sends no POST.
C5_SecondFetchSendsNoLogin ==
    (/\ op = "fetch_solar_data" /\ prev.op = "fetch_solar_data"
     /\ get_credentials(username, password)
     /\ Truthy(token0)
     /\ \A j \in 1..Len(log) : log[j].status # 401)
       => \A j \in 1..Len(log) : log[j].method # "POST"

\* C5, amended: such a second fetch_solar_data sends exactly one POST to
\* /login, as its first request; every later request is a GET.
C5_SecondFetchLogsInOnce ==
    (/\ op = "fetch_solar_data" /\ prev.op = "fetch_solar_data"
     /\ get_credentials(username, password)
     /\ Truthy(token0)
     /\ \A j \in 1..Len(log) : log[j].method = "GET" => log[j].status # 401)
       => /\ Len(log) >= 1
          /\ log[1].method = "POST" /\ log[1].endpoint = LoginEndpoint
          /\ \A j \in 2..Len(log) : log[j].method = "GET"

C5_Witness ==
    /\ op = "fetch_solar_data" /\ prev.op = "fetch_solar_data"
    /\ Truthy(token0)
    /\ pc = "idle" /\ raised = "none" /\ return_json /\ ret # None
    /\ Len(log) = 5
    /\ \A j \in 1..Len(log) : log[j].status = 200

\* C6: no GET is sent with an Authorization header built from an absent
\* token.
C6_NoGetWithoutToken ==
    \A j \in 1..Len(log) : log[j].method = "GET" => Truthy(log[j].auth)

\* C7: in JSON mode a fetch_solar_data in which the station-detail, the
\* inverter-list or the inverter-detail get_data returned None returns no
\* JSON and ends with DataShapeError.
C7_JsonAllOrNothing ==
    (/\ op = "fetch_solar_data" /\ pc = "idle" /\ return_json
     /\ \E i \in 2..Len(gd) : gd[i].data = None)
       => ret = None /\ raised = "DataShapeError"

\* C8: a fetch_solar_data whose inverter-detail response has fewer than two
\* pv entries raises DataShapeError, returns nothing and logs no report.
C8_ShortPvRaisesDataShapeError ==
    (/\ op = "fetch_solar_data" /\ pc = "idle" /\ Len(gd) = 4
     /\ DataTruthy(gd[4].data)
     /\ "data" \in DOMAIN gd[4].data[1]
     /\ Len(gd[4].data[1].data.pv) < 2)
       => raised = "DataShapeError" /\ ret = None /\ logged = <<>>

\* C9: a fetch_solar_data whose station list has an empty rows list has
\* ended without raising, returned nothing, logged no report and sent no
\* request after the station-list GET.
C9_EmptyStationListStops ==
    (/\ op = "fetch_solar_data" /\ Len(gd) >= 1
     /\ gd[1].data = Some([rows |-> <<>>]))
       => /\ pc = "idle" /\ raised = "none"
          /\ ret = None /\ logged = <<>>
          /\ Len(gd) = 1 /\ Len(log) = gd[1].last

C9_Witness ==
    /\ op = "fetch_solar_data" /\ pc = "idle" /\ Len(gd) = 1
    /\ gd[1].data = Some([rows |-> <<>>])
    /\ raised = "none" /\ ret = None

C11_RoundTrip ==
    (/\ op = "fetch_solar_data" /\ pc = "idle" /\ return_json
     /\ Len(log) = 5 /\ Len(gd) = 4
     /\ \A j \in 1..Len(log) : log[j].status = 200
     /\ \A i \in 1..4 : DataTruthy(gd[i].data)
     /\ "rows" \in DOMAIN gd[1].data[1] /\ Len(gd[1].data[1].rows) = 1
     /\ "data" \in DOMAIN gd[2].data[1]
     /\ "rows" \in DOMAIN gd[3].data[1] /\ Len(gd[3].data[1].rows) = 1
     /\ "data" \in DOMAIN gd[4].data[1] /\ Len(gd[4].data[1].data.pv) = 2)
       => /\ raised = "none" /\ ret # None
          /\ LET items == ret[1].json
                 value(k) == items[CHOOSE i \in 1..Len(items) : items[i][1] = k][2]
                 row == gd[1].data[1].rows[1]
                 power == gd[2].data[1].data
                 pv == gd[4].data[1].data.pv
             IN  /\ \A i, j \in 1..Len(items) : items[i][1] = items[j][1] => i = j
                 /\ value("Status") = row.status
                 /\ value("StationName") = row.stationName
                 /\ value("TotalActivePower(W)") = power.totalActivePower
                 /\ value("DailyEnergy(Wh)") = power.dayEnergy
                 /\ value("MonthlyEnergy(Wh)") = power.monthEnergy
                 /\ value("YearlyEnergy(Wh)") = power.yearEnergy
                 /\ value("Panel1Voltage(V)") = pv[1].voltage
                 /\ value("Panel1Current(A)") = pv[1].current
                 /\ value("Panel1Power(W)") = pv[1].power
                 /\ value("Panel2Voltage(V)") = pv[2].voltage
                 /\ value("Panel2Current(A)") = pv[2].current
                 /\ value("Panel2Power(W)") = pv[2].power

C11_Witness ==
    /\ op = "fetch_solar_data" /\ pc = "idle" /\ return_json
    /\ Len(log) = 5 /\ Len(gd) = 4
    /\ \A j \in 1..Len(log) : log[j].status = 200
    /\ gd[1].data = Some([rows |-> <<StationRow(1)>>])
    /\ gd[2].data = Some([data |-> PowerData(2)])
    /\ gd[3].data = Some([rows |-> <<InverterRow(1)>>])
    /\ gd[4].data = Some([data |-> [pv |-> <<PvEntry(2), PvEntry(1)>>]])
    /\ ret # None /\ raised = "none"

\* C12 as claimed: every report fetch_solar_data assembles, returned as JSON
\* or written to the log, has exactly 11 keys.
C12_ReportHasElevenKeys ==
    /\ (op = "fetch_solar_data" /\ ret # None) => Len(ret[1].json) = 11
    /\ logged # <<>> => Len(logged) = 11

\* C12, amended: every such report has exactly 12 keys: status, station
\* name, total power, the three energy figures and the six panel readings.
C12_ReportHasTwelveKeys ==
    LET keys(items) == {items[i][1] : i \in 1..Len(items)}
        expected == {"Status", "StationName", "TotalActivePower(W)",
                     "DailyEnergy(Wh)", "MonthlyEnergy(Wh)", "YearlyEnergy(Wh)",
                     "Panel1Voltage(V)", "Panel1Current(A)", "Panel1Power(W)",
                     "Panel2Voltage(V)", "Panel2Current(A)", "Panel2Power(W)"}
    IN  /\ (op = "fetch_solar_data" /\ ret # None) =>
              /\ Len(ret[1].json) = 12 /\ keys(ret[1].json) = expected
        /\ logged # <<>> => Len(logged) = 12 /\ keys(logged) = expected
        /\ (op = "fetch_solar_data" /\ pc = "idle" /\ raised = "none" /\ Len(gd) = 4)
              => (ret # None \/ logged # <<>>)

C12_Witness ==
    /\ op = "fetch_solar_data" /\ pc = "idle" /\ raised = "none"
    /\ ~return_json /\ Len(logged) = 12 /\ Cardinality({logged[i][1] : i \in 1..12}) = 12

\* C13: a login whose response has no token raises AuthenticationError and
\* leaves the token as it was; it is the last request of the invocation, so
\* a fetch_solar_data whose initial login fails ends with that error and has
\* sent no GET.
C13_LoginWithoutTokenAborts ==
    \A j \in 1..Len(log) :
       (log[j].method = "POST" /\ log[j].status # 0 /\ "token" \notin DOMAIN log[j].body) =>
          /\ j = Len(log) /\ pc = "idle"
          /\ raised = "AuthenticationError" /\ ret = None
          /\ token = token0
          /\ op = "fetch_solar_data" =>
                /\ gd = <<>> /\ logged = <<>>
                /\ \A k \in 1..Len(log) : log[k].method # "GET"

C13_Witness ==
    /\ op = "fetch_solar_data" /\ pc = "idle" /\ raised = "AuthenticationError"
    /\ Len(log) = 1 /\ log[1].method = "POST" /\ log[1].body = ErrorBody
    /\ Truthy(token0) /\ token = token0

\* C14: with return_json false fetch_solar_data returns nothing, also when
\* the four stages succeed and the report is written to the log.
C14_LogModeReturnsNothing ==
    (op = "fetch_solar_data" /\ ~return_json) => ret = None

C14_Witness ==
    /\ op = "fetch_solar_data" /\ pc = "idle" /\ ~return_json
    /\ raised = "none" /\ Len(gd) = 4 /\ logged # <<>> /\ ret = None

\* C15: in a fetch_solar_data only the last request can be unanswered, the
\* first request is the login POST and all others are GETs, the GETs go
\* through station list, station detail, inverter list, inverter detail in
\* that order, and the two detail URLs carry the guid of the first row of
\* the list answered before.
C15_SequentialOrderedRequests ==
    op = "fetch_solar_data" =>
       LET rank(j) == CASE log[j].endpoint.path = "system/station/list" -> 1
                        [] log[j].endpoint.path = "system/station/getPowerStationByGuid" -> 2
                        [] log[j].endpoint.path = "tools/device/selectDeviceInverter" -> 3
                        [] log[j].endpoint.path = "tools/device/selectDeviceInverterInfo" -> 4
                        [] OTHER -> 0
       IN  /\ \A j \in 1..(Len(log) - 1) : log[j].status # 0
           /\ (pc = "idle") => \A j \in 1..Len(log) : log[j].status # 0
           /\ \A j \in 1..Len(log) :
                 IF j = 1 THEN log[j].method = "POST" /\ log[j].endpoint = LoginEndpoint
                          ELSE log[j].method = "GET"
           /\ Len(log) >= 2 => rank(2) = 1
           /\ \A j \in 2..(Len(log) - 1) :
                 \/ rank(j + 1) = rank(j)
                 \/ rank(j + 1) = rank(j) + 1 /\ Len(gd) >= rank(j) /\ gd[rank(j)].last = j
           /\ \A j \in 2..Len(log) :
                 /\ rank(j) = 2 =>
                       log[j].endpoint.arg = gd[1].data[1].rows[1].powerStationGuid
                 /\ rank(j) = 4 =>
                       log[j].endpoint.arg = gd[3].data[1].rows[1].deviceGuid

C15_Witness ==
    /\ op = "fetch_solar_data" /\ pc = "get" /\ stage = 4 /\ attempt = 2
    /\ Len(log) = 9
    /\ Len(gd[1].data[1].rows) = 2 /\ Len(gd[3].data[1].rows) = 2
    /\ log[9].endpoint.arg = InverterRow(2).deviceGuid

\* C16 as claimed: a fetch_solar_data whose station-detail result was absent
\* has issued the inverter-list GET and the inverter-detail GET by its end.
C16_BothLaterGetsIssued ==
    (op = "fetch_solar_data" /\ pc = "idle" /\ Len(gd) >= 2 /\ gd[2].data = None) =>
       /\ \E j \in 1..Len(log) : log[j].endpoint = InverterListEndpoint
       /\ \E j \in 1..Len(log) :
             log[j].endpoint.path = "tools/device/selectDeviceInverterInfo"

\* C16, amended: when the station-detail result is absent the inverter-list
\* GET is the next request, the inverter-detail GET follows it whenever the
\* inverter list is answered with a first row, and the four power and
\* energy locals stay unset as long as the fetch runs.
C16_ContinuesAfterAbsentStationDetail ==
    (op = "fetch_solar_data" /\ Len(gd) >= 2 /\ gd[2].data = None) =>
       /\ Len(log) > gd[2].last
       /\ log[gd[2].last + 1].method = "GET"
       /\ log[gd[2].last + 1].endpoint = InverterListEndpoint
       /\ pc # "idle" =>
             /\ locals.totalActivePower = None /\ locals.dayEnergy = None
             /\ locals.monthEnergy = None /\ locals.yearEnergy = None
       /\ (Len(gd) >= 3 /\ HasStationRows(gd[3].data)) =>
             /\ Len(log) > gd[3].last
             /\ log[gd[3].last + 1].method = "GET"
             /\ log[gd[3].last + 1].endpoint =
                   InverterInfoEndpoint(gd[3].data[1].rows[1].deviceGuid)

C16_Witness ==
    /\ op = "fetch_solar_data" /\ pc = "get" /\ stage = 4
    /\ Len(gd) = 3 /\ gd[2].data = None
    /\ log[gd[2].last].status = 500
    /\ locals.totalActivePower = None /\ locals.yearEnergy = None

\* C17: the token is None at construction; a step changes it only when a
\* login response with a token arrives, and then to that token; a token
\* once set is never None again.
C17_TokenLifecycle ==
    /\ token = NONE
    /\ [][/\ Truthy(token) => Truthy(token')
          /\ token' # token =>
                /\ pc = "login"
                /\ log'[Len(log)].method = "POST"
                /\ "token" \in DOMAIN log'[Len(log)].body
                /\ token' = log'[Len(log)].body.token]_vars

C17_Witness ==
    /\ op = "login" /\ pc = "idle" /\ raised = "AuthenticationError"
    /\ prev.op = "get_data" /\ Truthy(token0) /\ token = token0

\* C18: a fetch_solar_data whose inverter-list result is absent, or has an
\* empty rows list, ends with DataShapeError.
C18_InverterListDataShapeError ==
    (/\ op = "fetch_solar_data" /\ pc = "idle" /\ Len(gd) = 3
     /\ \/ gd[3].data = None
        \/ gd[3].data = Some([rows |-> <<>>]))
       => raised = "DataShapeError"

\* C19: provided every request is answered, a fetch_solar_data that has
\* begun ends; no get_data sends more than 2 GETs and no fetch_solar_data
\* more than 8.
C19_FetchTerminates ==
    /\ [](op = "fetch_solar_data" =>
            /\ \A i \in 1..Len(gd) : gd[i].last - gd[i].first + 1 <= 2
            /\ Cardinality({j \in 1..Len(log) : log[j].method = "GET"}) <= 8
            /\ Len(gd) <= 4)
    /\ ((op = "fetch_solar_data" /\ pc # "idle") ~> (pc = "idle"))

C19_Witness ==
    /\ op = "fetch_solar_data" /\ pc = "idle"
    /\ Cardinality({j \in 1..Len(log) : log[j].method = "GET"}) = 8
    /\ \A i \in 1..4 : log[gd[i].first].status = 401

\* C20: in main the client exists only once the session is acquired, the
\* session stays open while fetch_solar_data runs, and it is closed as soon
\* as fetch_solar_data has ended, whether it returned or raised.
C20_SessionScopedByMain ==
    /\ client => session # "none"
    /\ mainpc = "start" => session = "none" /\ ~client
    /\ mainpc = "entered" => session = "open" /\ ~client
    /\ mainpc = "fetching" => session = "open" /\ client /\ pc # "idle"
    /\ mainpc = "done" => session = "closed" /\ pc = "idle"
    /\ (pc = "idle" /\ op = "fetch_solar_data") => mainpc = "done"

C20_Witness ==
    /\ mainpc = "done" /\ session = "closed"
    /\ raised = "UnboundLocalError" /\ Len(gd) = 4

====
